---------------------------- MODULE Spec2Model ----------------------------
(***************************************************************************)
(* A model of autokerning's numerical core: the overlap metric, the        *)
(* separable Gaussian blur with its radius-keyed kernel cache, the kern    *)
(* search (both kernPair variants of the repository), and the adaptive     *)
(* kernel-width calibration with the table generation that calls it.       *)
(*                                                                         *)
(* Numbers.  Coverage values are fixed-point: One stands for 1.0, so an    *)
(* overlap (a sum of products of four coverage values) is counted in       *)
(* units of One^4.  A store into a Float32Array is a rounding to the       *)
(* nearest fixed-point value.  Kernel coefficients are exact rationals     *)
(* with a common denominator.                                              *)
(***************************************************************************)
EXTENDS Integers, Sequences, FiniteSets, TLC

VARIABLES
    env,          \* process.env as config.ts reads it
    kernelCache,  \* (gaussianBlur as any)._kernelCache: radius -> kernel
    debugCount,   \* overlap.ts: let debugCount
    call,         \* the last completed call: its inputs and its result
    run           \* the generateKerningTable run in progress

vars == <<env, kernelCache, debugCount, call, run>>

---------------------------------------------------------------------------
(* Arithmetic helpers: Math.max, Math.min, Math.abs, Math.round.           *)

Max(a, b) == IF a >= b THEN a ELSE b

Min(a, b) == IF a <= b THEN a ELSE b

Abs(a) == IF a < 0 THEN -a ELSE a

\* Math.round(n / d) for d > 0: halves go toward +infinity.
RoundDiv(n, d) == (2 * n + d) \div (2 * d)

---------------------------------------------------------------------------
(* Glyph: { char, width, height, advance, bboxOffsetX, bitmap }.  The      *)
(* bitmap is an ndarray: a flat row-major data array and its shape.        *)

\* One: the coverage of a fully inked pixel, (255 - 0) / 255.0.
One == 10

\* typedArray[i] ?? 0 : a read outside the array gives undefined, hence 0.
At(data, i) == IF (i + 1) \in DOMAIN data THEN data[i + 1] ELSE 0

ndarray(data, h, w) == [shape |-> <<h, w>>, data |-> data]

mkGlyph(w, h, adv, off, data) ==
    [width |-> w, height |-> h, advance |-> adv, bboxOffsetX |-> off,
     bitmap |-> ndarray(data, h, w)]

---------------------------------------------------------------------------
(* overlap(left, right, kern)                                              *)

\* A variant with the sign of kern reversed: lOffset + kern.
lOffsetOfKernAdded(left, right, kern) ==
    -(left.advance + left.bboxOffsetX) + right.bboxOffsetX + kern

\* A variant that leaves the left glyph's bearing offset out of lOffset.
lOffsetOfNoBearing(left, right, kern) ==
    -left.advance + right.bboxOffsetX - kern

\* The placement of the left glyph relative to the right glyph's origin.
lOffsetOf(left, right, kern) ==
    -(left.advance + left.bboxOffsetX) + right.bboxOffsetX - kern

xStartOf(left, right, kern) == Max(0, lOffsetOf(left, right, kern))

xEndOf(left, right, kern) ==
    Min(right.width, lOffsetOf(left, right, kern) + left.width)

\* A variant that indexes the left row with the right glyph's stride (y * rW).
overlapTermRightStride(left, right, lOffset, x, y) ==
    LET rW == right.width
        rRowOff == y * rW
        rVal == IF x >= 0 /\ x < rW /\ y < right.height
                THEN At(right.bitmap.data, rRowOff + x) ELSE 0
        li == x - lOffset
        lVal == IF li >= 0 /\ li < left.width /\ y < left.height
                THEN At(left.bitmap.data, rRowOff + li) ELSE 0
    IN  lVal * lVal * rVal * rVal

\* One term of the double loop: lVal * lVal * rVal * rVal at (x, y).
overlapTerm(left, right, lOffset, x, y) ==
    LET rW == right.width
        lW == left.width
        rH == right.height
        lH == left.height
        rRowOff == y * rW
        lRowOff == y * lW
        rVal == IF x >= 0 /\ x < rW /\ y < rH
                THEN At(right.bitmap.data, rRowOff + x) ELSE 0
        li == x - lOffset          \* Math.floor of an integer
        lVal == IF li >= 0 /\ li < lW /\ y < lH
                THEN At(left.bitmap.data, lRowOff + li) ELSE 0
    IN  lVal * lVal * rVal * rVal

\* The value overlap returns.
overlap(left, right, kern) ==
    LET height == left.height
        lOffset == lOffsetOf(left, right, kern)
        xStart == xStartOf(left, right, kern)
        xEnd == xEndOf(left, right, kern)
        width == Max(0, xEnd - xStart)
        \* for (y = 0; y < height; y++) for (x = xStart; x < xEnd; x++) sum += ...
        row[y \in 0..height] ==
            IF y = height THEN 0
            ELSE LET cols[x \in xStart..Max(xStart, xEnd)] ==
                         IF x >= xEnd THEN 0
                         ELSE overlapTerm(left, right, lOffset, x, y) + cols[x + 1]
                 IN  cols[xStart] + row[y + 1]
    IN  IF width <= 0 THEN 0 ELSE row[0]

\* debugCount after the call: it counts the first three calls that scanned pixels.
debugCountAfter(count, left, right, kern) ==
    IF count < 3 /\ Max(0, xEndOf(left, right, kern) - xStartOf(left, right, kern)) > 0
    THEN count + 1 ELSE count

---------------------------------------------------------------------------
(* gaussianBlur(input, sigma, kernelWidth)                                 *)

\* Sum of f[lo] + ... + f[hi]: an accumulation loop.  The integer sum is
\* split in halves, which keeps the evaluation shallow for long kernels.
RECURSIVE SumFn(_, _, _)
SumFn(f, lo, hi) ==
    IF lo > hi THEN 0
    ELSE IF lo = hi THEN f[lo]
    ELSE SumFn(f, lo, (lo + hi) \div 2) + SumFn(f, (lo + hi) \div 2 + 1, hi)

\* round(1000 * Math.exp(-j / 8)) for j = 0 .. 16.
ExpTable ==
    <<1000, 882, 779, 687, 607, 535, 472, 417, 368,
      325, 287, 253, 223, 197, 174, 153, 135>>

\* Math.exp(-(x * x) / (2 * sigma * sigma)) in thousandths, sigma = n / d;
\* the exponent is rounded to eighths.
MathExp(x, sigma) ==
    LET j == RoundDiv(8 * x * x * sigma.d * sigma.d, 2 * sigma.n * sigma.n)
    IN  ExpTable[Min(j, Len(ExpTable) - 1) + 1]

\* config.BLUR_SIGMA_FACTOR * input.shape[1], the default 0.15 as 15 / 100;
\* kernelWidth / 4 when a kernel width is given.  kernelWidth is <<>> when
\* the argument is undefined and <<w>> otherwise.
sigmaOf(input, kernelWidth) ==
    IF kernelWidth # <<>>
    THEN [n |-> kernelWidth[1], d |-> 4]
    ELSE [n |-> 15 * input.shape[2], d |-> 100]

radiusOf(sigma) == RoundDiv(sigma.n, sigma.d)

\* The kernel built on a cache miss: tmp[i] = exp(..), then tmp[i] /= s.
\* num[i + 1] / den is the coefficient of tap i - radius.
newKernel(radius, sigma) ==
    LET klen == radius * 2 + 1
        tmp == [i \in 1..klen |-> MathExp((i - 1) - radius, sigma)]
        s == SumFn(tmp, 1, klen)
    IN  [num |-> tmp, den |-> s]

\* let kernel = kernelCache[radius]; if (!kernel) { ... kernelCache[radius] = kernel }
kernelFor(cache, radius, sigma) ==
    IF radius \in DOMAIN cache THEN cache[radius] ELSE newKernel(radius, sigma)

\* A cache that stores the kernel of the current sigma on every call.
cacheAfterOverwrite(cache, radius, sigma) ==
    [r \in DOMAIN cache \cup {radius} |->
        IF r = radius THEN newKernel(radius, sigma) ELSE cache[r]]

\* The cache after the call: an entry is added on a miss and never replaced.
cacheAfter(cache, radius, sigma) ==
    IF radius \in DOMAIN cache THEN cache
    ELSE [r \in DOMAIN cache \cup {radius} |->
            IF r = radius THEN newKernel(radius, sigma) ELSE cache[r]]

\* A pass that pads with zeros: a tap outside the grid contributes nothing.
blurPassZeroPad(data, height, width, radius, kernel, horizontal) ==
    [p \in 1..(width * height) |->
        LET y == (p - 1) \div width
            x == (p - 1) % width
            tap[i \in -radius..radius] ==
                LET inside == IF horizontal THEN x + i >= 0 /\ x + i < width
                              ELSE y + i >= 0 /\ y + i < height
                    src == IF horizontal THEN y * width + (x + i)
                           ELSE (y + i) * width + x
                IN  IF inside THEN At(data, src) * kernel.num[i + radius + 1] ELSE 0
        IN  RoundDiv(SumFn(tap, -radius, radius), kernel.den)]

\* One 1-D pass; a store into the Float32Array rounds the accumulator.
\* horizontal: taps at (y, clamp(x + i)); vertical: taps at (clamp(y + i), x).
blurPass(data, height, width, radius, kernel, horizontal) ==
    [p \in 1..(width * height) |->
        LET y == (p - 1) \div width
            x == (p - 1) % width
            tap[i \in -radius..radius] ==
                LET xi == Min(width - 1, Max(0, x + i))
                    yi == Min(height - 1, Max(0, y + i))
                    src == IF horizontal THEN y * width + xi ELSE yi * width + x
                IN  At(data, src) * kernel.num[i + radius + 1]
        IN  RoundDiv(SumFn(tap, -radius, radius), kernel.den)]

\* The blurred bitmap, given the kernel cache the call finds.
gaussianBlur(cache, input, kernelWidth) ==
    LET sigma == sigmaOf(input, kernelWidth)
        width == input.shape[2]
        height == input.shape[1]
        radius == radiusOf(sigma)
        kernel == kernelFor(cache, radius, sigma)
        tempData == blurPass(input.data, height, width, radius, kernel, TRUE)
        outData == blurPass(tempData, height, width, radius, kernel, FALSE)
    IN  ndarray(outData, height, width)

\* The kernel cache the call leaves behind.
gaussianBlurCache(cache, input, kernelWidth) ==
    LET sigma == sigmaOf(input, kernelWidth)
    IN  cacheAfter(cache, radiusOf(sigma), sigma)

---------------------------------------------------------------------------
(* config.ts                                                               *)

FONT_SIZE == env.FONT_SIZE

MAX_KERN == env.MAX_KERN

\* kernPair.ts: const KERN_STEP = Math.max(1, config.KERN_STEP)
KERN_STEP == Max(1, env.KERN_STEP)

\* process.env.SELECTION_STRATEGY || "calibrated"; "" stands for an unset variable.
SELECTION_STRATEGY ==
    IF env.SELECTION_STRATEGY = "" THEN "calibrated" ELSE env.SELECTION_STRATEGY

\* config.NO_OVERLAP_EPS || 1 with the default NO_OVERLAP_EPS = 1, in overlap units.
EPS == 1 * One * One * One * One

\* The literal 1e10 of the calibration invocation: above every overlap.
Sentinel == 1000000000

---------------------------------------------------------------------------
(* kernPair: what a call gives back.                                       *)

Return(v) == [threw |-> FALSE, value |-> v]

\* A TypeError: a property read on the undefined that Array.find returned.
Throw == [threw |-> TRUE, value |-> 0]

\* samples.find((p) => p.kernel === k)
HasSample(samples, k) == \E j \in 1..Len(samples) : samples[j].kernel = k

SampleAt(samples, k) ==
    samples[CHOOSE j \in 1..Len(samples) :
               /\ samples[j].kernel = k
               /\ \A i \in 1..(j - 1) : samples[i].kernel # k]

\* for (let k = -MAX_KERN; k <= MAX_KERN; k += KERN_STEP) samples.push(...)
RECURSIVE sampleLoop(_, _, _)
sampleLoop(blurredLeft, blurredRight, k) ==
    IF k > MAX_KERN THEN <<>>
    ELSE <<[kernel |-> k, sumPixel |-> overlap(blurredLeft, blurredRight, k)]>>
         \o sampleLoop(blurredLeft, blurredRight, k + KERN_STEP)

\* A variant whose sample loop starts one step below -MAX_KERN.
samplesOfFromBelow(blurredLeft, blurredRight) ==
    sampleLoop(blurredLeft, blurredRight, -MAX_KERN - KERN_STEP)

samplesOf(blurredLeft, blurredRight) ==
    sampleLoop(blurredLeft, blurredRight, -MAX_KERN)

\* A variant of the calibration scan that replaces the best on s >= bestOverlap.
RECURSIVE calibrationLoopKeepLast(_, _, _, _, _)
calibrationLoopKeepLast(blurredLeft, blurredRight, k, bestKern, bestOverlap) ==
    IF k > 0 THEN bestKern
    ELSE LET s == overlap(blurredLeft, blurredRight, k)
         IN  IF s >= bestOverlap
             THEN calibrationLoopKeepLast(blurredLeft, blurredRight, k + KERN_STEP, k, s)
             ELSE calibrationLoopKeepLast(blurredLeft, blurredRight, k + KERN_STEP,
                                          bestKern, bestOverlap)

\* The calibration scan: for (let k = -MAX_KERN; k <= 0; k += KERN_STEP)
\*   if (s > bestOverlap) { bestOverlap = s; bestKern = k }
RECURSIVE calibrationLoop(_, _, _, _, _)
calibrationLoop(blurredLeft, blurredRight, k, bestKern, bestOverlap) ==
    IF k > 0 THEN bestKern
    ELSE LET s == overlap(blurredLeft, blurredRight, k)
         IN  IF s > bestOverlap
             THEN calibrationLoop(blurredLeft, blurredRight, k + KERN_STEP, k, s)
             ELSE calibrationLoop(blurredLeft, blurredRight, k + KERN_STEP,
                                  bestKern, bestOverlap)

calibrationScan(blurredLeft, blurredRight) ==
    Return(calibrationLoop(blurredLeft, blurredRight, -MAX_KERN, 0, 0))

\* A variant of the midpoint loop with the comparison reversed (d > bestDist).
RECURSIVE midpointLoopFarthest(_, _, _, _, _)
midpointLoopFarthest(samples, j, target2, best, bestDist) ==
    IF j > Len(samples) THEN best.kernel
    ELSE LET d == Abs(2 * samples[j].sumPixel - target2)
         IN  IF d > bestDist
             THEN midpointLoopFarthest(samples, j + 1, target2, samples[j], d)
             ELSE midpointLoopFarthest(samples, j + 1, target2, best, bestDist)

\* strategy "midpoint": the distance to (minOverlap + maxOverlap) / 2 is kept
\* doubled, which orders the samples the same way.
RECURSIVE midpointLoop(_, _, _, _, _)
midpointLoop(samples, j, target2, best, bestDist) ==
    IF j > Len(samples) THEN best.kernel
    ELSE LET d == Abs(2 * samples[j].sumPixel - target2)
         IN  IF d < bestDist
             THEN midpointLoop(samples, j + 1, target2, samples[j], d)
             ELSE midpointLoop(samples, j + 1, target2, best, bestDist)

midpoint(samples, minOverlap, maxOverlap) ==
    LET target2 == minOverlap + maxOverlap
    IN  IF samples = <<>> THEN Throw
        ELSE Return(midpointLoop(samples, 1, target2, samples[1],
                                 Abs(2 * samples[1].sumPixel - target2)))

\* samples.slice().sort((a, b) => b.kernel - a.kernel): descending by kernel.
sortedDescending(samples) ==
    [i \in 1..Len(samples) |->
        samples[CHOOSE j \in 1..Len(samples) :
                   Cardinality({m \in 1..Len(samples) :
                                   samples[m].kernel > samples[j].kernel}) = i - 1]]

\* Math.min(...samples.map((p) => p.kernel))
minKernel(samples) ==
    CHOOSE k \in {samples[j].kernel : j \in 1..Len(samples)} :
        \A j \in 1..Len(samples) : k <= samples[j].kernel

\* A variant of the conservative scan that does not stop at the first sample
\* above EPS.
RECURSIVE conservativeLoopScanOn(_, _, _, _)
conservativeLoopScanOn(samples, sorted, j, lastGoodKernel) ==
    IF j > Len(sorted)
    THEN IF lastGoodKernel # <<>> THEN lastGoodKernel[1] ELSE 0
    ELSE IF sorted[j].sumPixel <= EPS
         THEN conservativeLoopScanOn(samples, sorted, j + 1, <<sorted[j].kernel>>)
         ELSE conservativeLoopScanOn(samples, sorted, j + 1, lastGoodKernel)

\* strategy "conservative" of the five-argument kernPair: scan from the most
\* positive kernel; lastGoodKernel is <<>> for null and <<k>> otherwise.
RECURSIVE conservativeLoop(_, _, _, _)
conservativeLoop(samples, sorted, j, lastGoodKernel) ==
    IF j > Len(sorted)
    THEN IF lastGoodKernel # <<>> THEN minKernel(samples) ELSE 0
    ELSE IF sorted[j].sumPixel <= EPS
         THEN conservativeLoop(samples, sorted, j + 1, <<sorted[j].kernel>>)
         ELSE IF lastGoodKernel # <<>> THEN lastGoodKernel[1] ELSE 0

conservative(samples) ==
    Return(conservativeLoop(samples, sortedDescending(samples), 1, <<>>))

\* strategy "conservative" of src/kernPair.ts: the minimum over the good samples.
conservativeTs(samples) ==
    LET good == {samples[j].kernel : j \in {i \in 1..Len(samples) :
                                               samples[i].sumPixel <= EPS}}
    IN  IF good # {}
        THEN Return(CHOOSE k \in good : \A g \in good : k <= g)
        ELSE Return(0)

\* A variant of the calibrated negative walk that tests sumPixel > minOverlap.
RECURSIVE calibratedNegativeStrict(_, _, _)
calibratedNegativeStrict(samples, kern, minOverlap) ==
    IF kern < -MAX_KERN THEN Return(0)
    ELSE IF ~HasSample(samples, kern) THEN Throw
    ELSE IF SampleAt(samples, kern).sumPixel > minOverlap THEN Return(kern)
    ELSE calibratedNegativeStrict(samples, kern - KERN_STEP, minOverlap)

\* default "calibrated": the two walks away from kern 0.
RECURSIVE calibratedNegative(_, _, _)
calibratedNegative(samples, kern, minOverlap) ==
    IF kern < -MAX_KERN THEN Return(0)
    ELSE IF ~HasSample(samples, kern) THEN Throw
    ELSE IF SampleAt(samples, kern).sumPixel >= minOverlap THEN Return(kern)
    ELSE calibratedNegative(samples, kern - KERN_STEP, minOverlap)

RECURSIVE calibratedPositive(_, _, _)
calibratedPositive(samples, k, maxOverlap) ==
    IF k > MAX_KERN THEN Return(0)
    ELSE IF ~HasSample(samples, k) THEN Throw
    ELSE IF SampleAt(samples, k).sumPixel <= maxOverlap THEN Return(k)
    ELSE calibratedPositive(samples, k + KERN_STEP, maxOverlap)

calibrated(samples, minOverlap, maxOverlap) ==
    IF ~HasSample(samples, 0) THEN Throw
    ELSE LET s0 == SampleAt(samples, 0).sumPixel
         IN  IF s0 >= minOverlap /\ s0 <= maxOverlap THEN Return(0)
             ELSE IF s0 < minOverlap
                  THEN calibratedNegative(samples, -KERN_STEP, minOverlap)
             ELSE IF s0 > maxOverlap
                  THEN calibratedPositive(samples, KERN_STEP, maxOverlap)
             ELSE Return(0)

\* strategy "argmax" (src/kernPair.ts only): the first sample of maximal overlap.
RECURSIVE argmaxLoop(_, _, _)
argmaxLoop(samples, j, best) ==
    IF j > Len(samples) THEN best.kernel
    ELSE IF samples[j].sumPixel > best.sumPixel
         THEN argmaxLoop(samples, j + 1, samples[j])
         ELSE argmaxLoop(samples, j + 1, best)

argmax(samples) ==
    IF samples = <<>> THEN Throw ELSE Return(argmaxLoop(samples, 1, samples[1]))

\* strategy "no-overlap" (src/kernPair.ts only): 0, then the negative side,
\* then the positive side; a kern without a sample is passed over (p && ...).
RECURSIVE noOverlapNegative(_, _)
noOverlapNegative(samples, k) ==
    IF k < -MAX_KERN THEN <<>>
    ELSE IF HasSample(samples, k) /\ SampleAt(samples, k).sumPixel <= EPS THEN <<k>>
    ELSE noOverlapNegative(samples, k - KERN_STEP)

RECURSIVE noOverlapPositive(_, _)
noOverlapPositive(samples, k) ==
    IF k > MAX_KERN THEN <<>>
    ELSE IF HasSample(samples, k) /\ SampleAt(samples, k).sumPixel <= EPS THEN <<k>>
    ELSE noOverlapPositive(samples, k + KERN_STEP)

noOverlap(samples) ==
    IF ~HasSample(samples, 0) THEN Throw
    ELSE IF Abs(SampleAt(samples, 0).sumPixel) <= EPS THEN Return(0)
    ELSE LET neg == noOverlapNegative(samples, -KERN_STEP)
             pos == noOverlapPositive(samples, KERN_STEP)
         IN  IF neg # <<>> THEN Return(neg[1])
             ELSE IF pos # <<>> THEN Return(pos[1])
             ELSE Return(0)

---------------------------------------------------------------------------
(* kernPair(left, right, minOverlap, maxOverlap, kernelWidth): the         *)
(* five-argument variant that generateKerningTable calls, and              *)
(* kernPairTs, the four-argument variant of src/kernPair.ts.               *)

\* { ...glyph, bitmap: gaussianBlur(glyph.bitmap, undefined, kernelWidth) }
blurred(cache, glyph, kernelWidth) ==
    [glyph EXCEPT !.bitmap = gaussianBlur(cache, glyph.bitmap, kernelWidth)]

\* config.SELECTION_STRATEGY || "conservative"
strategyOf == IF SELECTION_STRATEGY = "" THEN "conservative" ELSE SELECTION_STRATEGY

\* minOverlap === 0 && maxOverlap === 1e10
isCalibrationCall(minOverlap, maxOverlap) == minOverlap = 0 /\ maxOverlap = Sentinel

kernPair(cache, left, right, minOverlap, maxOverlap, kernelWidth) ==
    LET blurredLeft == blurred(cache, left, kernelWidth)
        cache1 == gaussianBlurCache(cache, left.bitmap, kernelWidth)
        blurredRight == blurred(cache1, right, kernelWidth)
        strategy == strategyOf
    IN  IF isCalibrationCall(minOverlap, maxOverlap)
        THEN calibrationScan(blurredLeft, blurredRight)
        ELSE LET samples == samplesOf(blurredLeft, blurredRight)
             IN  IF strategy = "midpoint" THEN midpoint(samples, minOverlap, maxOverlap)
                 ELSE IF strategy = "conservative" THEN conservative(samples)
                 ELSE calibrated(samples, minOverlap, maxOverlap)

kernPairTs(cache, left, right, minOverlap, maxOverlap) ==
    LET blurredLeft == blurred(cache, left, <<>>)
        cache1 == gaussianBlurCache(cache, left.bitmap, <<>>)
        blurredRight == blurred(cache1, right, <<>>)
        strategy == strategyOf
    IN  IF strategy = "calibrated" /\ isCalibrationCall(minOverlap, maxOverlap)
        THEN calibrationScan(blurredLeft, blurredRight)
        ELSE LET samples == samplesOf(blurredLeft, blurredRight)
             IN  IF strategy = "argmax" THEN argmax(samples)
                 ELSE IF strategy = "midpoint"
                      THEN midpoint(samples, minOverlap, maxOverlap)
                 ELSE IF strategy = "no-overlap" THEN noOverlap(samples)
                 ELSE IF strategy = "conservative" THEN conservativeTs(samples)
                 ELSE calibrated(samples, minOverlap, maxOverlap)

\* The kernel cache after the two blurs of a kernPair call.
kernPairCache(cache, left, right, kernelWidth) ==
    gaussianBlurCache(gaussianBlurCache(cache, left.bitmap, kernelWidth),
                      right.bitmap, kernelWidth)

\* debugCount after the overlap calls for k, k + KERN_STEP, ... <= last.
RECURSIVE debugCountLoop(_, _, _, _, _)
debugCountLoop(count, blurredLeft, blurredRight, k, last) ==
    IF k > last THEN count
    ELSE debugCountLoop(debugCountAfter(count, blurredLeft, blurredRight, k),
                        blurredLeft, blurredRight, k + KERN_STEP, last)

\* debugCount after a kernPair call: the scan stops at 0 in the calibration
\* invocation and at MAX_KERN otherwise.  Blurring changes no metric, so the
\* scanned widths are those of the unblurred glyphs.
kernPairDebugCount(count, left, right, calibration) ==
    debugCountLoop(count, left, right, -MAX_KERN,
                   IF calibration THEN 0 ELSE MAX_KERN)

---------------------------------------------------------------------------
(* Inputs.                                                                 *)

MaxWidth == 2       \* bitmap widths 1 .. MaxWidth
MaxKern == 3        \* kern arguments and MAX_KERN settings up to MaxKern
MaxKernStep == 2    \* KERN_STEP settings up to MaxKernStep
MaxFontSize == 4    \* FONT_SIZE settings up to MaxFontSize

Levels == {0, One}

\* Bitmap heights: equal and different heights both occur.
Heights == {1, 2}

Bitmaps(w, h) == [1..(w * h) -> Levels]

\* Glyphs of the given heights; the advance is the width (the test helper's
\* choice) or one less, the bearing offset 0 or 1.
GlyphsOf(heights) ==
    UNION {{mkGlyph(w, h, adv, off, d) :
               d \in Bitmaps(w, h), adv \in {w - 1, w}, off \in {0, 1}} :
           w \in 1..MaxWidth, h \in heights}

Strategies == {"conservative", "calibrated", "midpoint", "argmax", "no-overlap"}

DefaultEnv ==
    [FONT_SIZE |-> MaxFontSize, MAX_KERN |-> MaxKern, KERN_STEP |-> 1,
     SELECTION_STRATEGY |-> ""]

Idle == [pc |-> "idle"]

---------------------------------------------------------------------------
(* The overlap metric on its own: one call on a drawn glyph pair.          *)

InitOverlap ==
    /\ env = DefaultEnv
    /\ kernelCache = <<>>
    /\ debugCount = 0
    /\ run = Idle
    /\ \E left \in GlyphsOf(Heights), right \in GlyphsOf(Heights),
          kern \in -MaxKern..MaxKern :
          /\ right.advance = right.width
          /\ call = [op |-> "overlap", left |-> left, right |-> right,
                     kern |-> kern, done |-> FALSE, result |-> 0]

OverlapCall ==
    /\ call.op = "overlap"
    /\ ~call.done
    /\ call' = [call EXCEPT !.done = TRUE,
                            !.result = overlap(call.left, call.right, call.kern)]
    /\ debugCount' = debugCountAfter(debugCount, call.left, call.right, call.kern)
    /\ UNCHANGED <<env, kernelCache, run>>

SpecOverlap == InitOverlap /\ [][OverlapCall]_vars

\* The sum of section 4.3 read as a sum over pixel coordinates: the pixel of
\* glyph g at row y, column c, and 0 outside the glyph's own grid.
PixelOf(g, y, c) ==
    IF c \in 0..(g.width - 1) /\ y \in 0..(g.height - 1)
    THEN g.bitmap.data[y * g.width + c + 1] ELSE 0

ReferenceOverlap(left, right, kern) ==
    LET lOffset == -(left.advance + left.bboxOffsetX) + right.bboxOffsetX - kern
        xs == Max(0, lOffset)..(Min(right.width, lOffset + left.width) - 1)
        ys == 0..(Max(left.height, right.height) - 1)
        term == [y \in ys |->
                    LET inRow == [x \in xs |->
                                     PixelOf(left, y, x - lOffset) * PixelOf(left, y, x - lOffset)
                                     * PixelOf(right, y, x) * PixelOf(right, y, x)]
                    IN  SumFn(inRow, Max(0, lOffset),
                              Min(right.width, lOffset + left.width) - 1)]
    IN  SumFn(term, 0, Max(left.height, right.height) - 1)

Uniform(g) ==
    \A i, j \in DOMAIN g.bitmap.data : g.bitmap.data[i] = g.bitmap.data[j]

\* C10: for integer metrics overlap equals the sum, over x in the intersection
\* range and y in [0, max(left.height, right.height)), of left^2 * right^2 with a
\* pixel outside its own grid counting 0, also for glyphs of different heights.
C10_OverlapIsReferenceSum ==
    call.done => call.result = ReferenceOverlap(call.left, call.right, call.kern)

C10_Witness ==
    /\ call.done
    /\ call.left.height # call.right.height
    /\ call.left.width # call.right.width
    /\ call.result > 0

\* C1 as stated: for any non-negative grids and k1 < k2 <= 0,
\* overlap(l, r, k1) >= overlap(l, r, k2).
C1_Original ==
    call.done =>
        \A k2 \in (call.kern + 1)..0 :
            call.result >= overlap(call.left, call.right, k2)

\* C1 amended: for glyphs of uniform coverage and k1 < k2 <= 0 such that at k1
\* the left glyph's left edge is not right of the right glyph's left edge
\* (lOffset(k1) <= 0), overlap(l, r, k1) >= overlap(l, r, k2).
C1_MonotoneUntilAligned ==
    (/\ call.done
     /\ Uniform(call.left) /\ Uniform(call.right)
     /\ -(call.left.advance + call.left.bboxOffsetX) + call.right.bboxOffsetX
            - call.kern <= 0)
    => \A k2 \in (call.kern + 1)..0 :
           call.result >= overlap(call.left, call.right, k2)

C1_Witness ==
    /\ call.done
    /\ Uniform(call.left) /\ Uniform(call.right)
    /\ -(call.left.advance + call.left.bboxOffsetX) + call.right.bboxOffsetX
           - call.kern <= 0
    /\ \E k2 \in (call.kern + 1)..0 :
           call.result > overlap(call.left, call.right, k2)

---------------------------------------------------------------------------
(* The blur and its kernel cache: gaussianBlur calls, one after another,   *)
(* on a drawn bitmap with any kernel width.                                *)

\* The kernelWidth argument: undefined, or a width up to findS's ceiling.
KernelWidths == {<<>>} \cup {<<w>> : w \in 1..(2 * MaxFontSize)}

BlurInputs ==
    UNION {{ndarray(d, h, w) : d \in Bitmaps(w, h)} : w \in 1..MaxWidth, h \in Heights}

InitBlur ==
    /\ env = DefaultEnv
    /\ kernelCache = <<>>
    /\ debugCount = 0
    /\ run = Idle
    /\ \E input \in BlurInputs :
          call = [op |-> "gaussianBlur", input |-> input, kernelWidth |-> <<>>,
                  done |-> FALSE, result |-> input]

BlurCall ==
    /\ call.op = "gaussianBlur"
    /\ \E kernelWidth \in KernelWidths :
          /\ call' = [call EXCEPT
                        !.done = TRUE,
                        !.kernelWidth = kernelWidth,
                        !.result = gaussianBlur(kernelCache, call.input, kernelWidth)]
          /\ kernelCache' = gaussianBlurCache(kernelCache, call.input, kernelWidth)
    /\ UNCHANGED <<env, debugCount, run>>

SpecBlur == InitBlur /\ [][BlurCall]_vars

\* C3: gaussianBlur is a pure function of (coverage, sigma): whatever calls
\* came before, a call returns what the same call returns with an empty kernel
\* cache.
C3_CacheNotObservable ==
    call.done => call.result = gaussianBlur(<<>>, call.input, call.kernelWidth)

---------------------------------------------------------------------------
(* The kern search: one kernPair call, of either variant, on a drawn glyph *)
(* pair under a drawn configuration.                                       *)

\* One-row glyphs, as wide as 2 pixels and with bearing offset 0.
KernGlyphs ==
    UNION {{mkGlyph(w, 1, adv, 0, d) : d \in Bitmaps(w, 1), adv \in {w - 1, w}} :
           w \in {1, 2}}

\* Fully covered one-row glyphs of width 3 whose advance is 1, 2 or 3: a pair of
\* them overlaps in two columns or more at several kerns.
WideGlyphs == {mkGlyph(3, 1, adv, 0, <<One, One, One>>) : adv \in 1..3}

\* (minOverlap, maxOverlap): the calibration invocation and four bands.
OverlapBands ==
    {<<0, Sentinel>>, <<0, 0>>, <<EPS, EPS>>, <<EPS, 2 * EPS>>, <<2 * EPS, 3 * EPS>>}

KernEnvs ==
    [FONT_SIZE : {MaxFontSize}, MAX_KERN : 1..MaxKern, KERN_STEP : 1..MaxKernStep,
     SELECTION_STRATEGY : Strategies \cup {""}]

InitKern ==
    /\ env \in KernEnvs
    /\ kernelCache = <<>>
    /\ debugCount = 0
    /\ run = Idle
    /\ \E left \in KernGlyphs \cup WideGlyphs, right \in KernGlyphs \cup WideGlyphs,
          band \in OverlapBands,
          kernelWidth \in {<<>>, <<3>>} :
          /\ right.advance = right.width
          /\ call = [op |-> "pending", left |-> left, right |-> right,
                     minOverlap |-> band[1], maxOverlap |-> band[2],
                     kernelWidth |-> kernelWidth, done |-> FALSE,
                     result |-> Return(0)]

\* kernPair(left, right, minOverlap, maxOverlap, kernelWidth)
KernPairCall ==
    /\ call.op = "pending"
    /\ call' = [call EXCEPT
                  !.op = "kernPair",
                  !.done = TRUE,
                  !.result = kernPair(kernelCache, call.left, call.right,
                                      call.minOverlap, call.maxOverlap,
                                      call.kernelWidth)]
    /\ kernelCache' = kernPairCache(kernelCache, call.left, call.right,
                                    call.kernelWidth)
    /\ debugCount' = kernPairDebugCount(debugCount, call.left, call.right,
                          isCalibrationCall(call.minOverlap, call.maxOverlap))
    /\ UNCHANGED <<env, run>>

\* kernPair(left, right, minOverlap, maxOverlap) of src/kernPair.ts
KernPairTsCall ==
    /\ call.op = "pending"
    /\ call.kernelWidth = <<>>
    /\ call' = [call EXCEPT
                  !.op = "kernPairTs",
                  !.done = TRUE,
                  !.result = kernPairTs(kernelCache, call.left, call.right,
                                        call.minOverlap, call.maxOverlap)]
    /\ kernelCache' = kernPairCache(kernelCache, call.left, call.right, <<>>)
    /\ debugCount' = kernPairDebugCount(debugCount, call.left, call.right,
                          strategyOf = "calibrated"
                          /\ isCalibrationCall(call.minOverlap, call.maxOverlap))
    /\ UNCHANGED <<env, run>>

NextKern == KernPairCall \/ KernPairTsCall

SpecKern == InitKern /\ [][NextKern]_vars

\* The samples a finished call took: its blurred glyphs at every kern of the range.
CallSamples ==
    LET kw == IF call.op = "kernPair" THEN call.kernelWidth ELSE <<>>
        bl == blurred(<<>>, call.left, kw)
        br == blurred(gaussianBlurCache(<<>>, call.left.bitmap, kw), call.right, kw)
    IN  [k \in -MAX_KERN..MAX_KERN |-> overlap(bl, br, k)]

\* The kerns the search samples: -MAX_KERN, -MAX_KERN + KERN_STEP, ... <= MAX_KERN.
SampledKerns ==
    {k \in -MAX_KERN..MAX_KERN : (k + MAX_KERN) % KERN_STEP = 0}

\* C2: whatever the glyphs, bounds, kernel width and strategy, a value kernPair
\* returns lies within [-MAX_KERN, MAX_KERN].
C2_KernWithinRange ==
    (call.done /\ ~call.result.threw) =>
        (call.result.value >= -MAX_KERN /\ call.result.value <= MAX_KERN)

C2_Witness ==
    /\ call.done /\ ~call.result.threw
    /\ call.result.value = -MAX_KERN
    /\ MAX_KERN > 1

\* Whether the finished call ran a named strategy on the full sample set.
RanStrategy(name) ==
    /\ call.done
    /\ strategyOf = name
    /\ \/ call.op = "kernPair" /\ ~isCalibrationCall(call.minOverlap, call.maxOverlap)
       \/ call.op = "kernPairTs" /\ name # "calibrated"
       \/ call.op = "kernPairTs" /\ ~isCalibrationCall(call.minOverlap, call.maxOverlap)

GoodKerns == {k \in SampledKerns : CallSamples[k] <= EPS}

BadKerns == SampledKerns \ GoodKerns

Least(S) == CHOOSE k \in S : \A m \in S : k <= m

Greatest(S) == CHOOSE k \in S : \A m \in S : k >= m

\* The kern of S nearest to 0 (S lies on one side of 0), or 0 for an empty S.
NearestOrZero(S) ==
    IF S = {} THEN 0 ELSE CHOOSE k \in S : \A m \in S : Abs(k) <= Abs(m)

InBand(k) == CallSamples[k] >= call.minOverlap /\ CallSamples[k] <= call.maxOverlap

\* The kerns of the calibrated walk: the negative side when the overlap at 0 is
\* below minOverlap, the positive side when it is above maxOverlap.
WalkKerns ==
    IF CallSamples[0] < call.minOverlap
    THEN {k \in -MAX_KERN..(-1) : (-k) % KERN_STEP = 0}
    ELSE {k \in 1..MAX_KERN : k % KERN_STEP = 0}

RanCalibration ==
    /\ call.done
    /\ isCalibrationCall(call.minOverlap, call.maxOverlap)
    /\ call.op = "kernPairTs" => strategyOf = "calibrated"

ScanKerns == {k \in SampledKerns : k <= 0}

MaximalScanKerns ==
    {k \in ScanKerns : \A m \in ScanKerns : CallSamples[k] >= CallSamples[m]}

\* C6 as stated: with minOverlap = 0 and maxOverlap = 1e10 kernPair, whatever
\* the strategy, returns a kern of the scan -MAX_KERN .. 0 whose overlap is
\* maximal, the least negative one among equal maxima.
C6_Original ==
    (call.done /\ isCalibrationCall(call.minOverlap, call.maxOverlap)) =>
        call.result = Return(Greatest(MaximalScanKerns))

\* C6 amended: in the calibration invocation the five-argument kernPair under
\* every strategy, and src/kernPair.ts under the calibrated strategy, scans kern
\* from -MAX_KERN to 0 in steps of KERN_STEP and returns the most negative kern
\* of the scan whose overlap is maximal, and 0 when every scanned overlap is 0.
C6_CalibrationScan ==
    RanCalibration =>
        call.result =
            Return(IF \A k \in ScanKerns : CallSamples[k] = 0 THEN 0
                   ELSE Least(MaximalScanKerns))

\* Two kerns of the scan share the maximal overlap and the more negative one is returned.
C6_Witness ==
    /\ RanCalibration
    /\ Cardinality(MaximalScanKerns) > 1
    /\ CallSamples[call.result.value] > 0
    /\ call.result.value = Least(MaximalScanKerns)

\* C9: for every strategy, MAX_KERN >= 1 and KERN_STEP >= 1, also when
\* KERN_STEP does not divide MAX_KERN, kernPair returns a number and never throws.
C9_NeverThrows == call.done => ~call.result.threw

---------------------------------------------------------------------------
(* generateKerningTable.ts: findS and generateKerningTable                 *)

TUNING_CHARS == <<"l", "n", "o">>

MAX_ITERATIONS == 100

\* A stand-in for the list of common pairs: one pair the font has, one it lacks.
COMMON_PAIRS == << <<"l", "o">>, <<"A", "V">> >>

\* A font is a function from its characters to their rendered glyphs.
renderGlyph(font, char) == font[char]

hasChar(font, char) == char \in DOMAIN font

RECURSIVE MinOf(_)
MinOf(ss) == IF Len(ss) = 1 THEN ss[1] ELSE Min(ss[1], MinOf(Tail(ss)))

RECURSIVE MaxOf(_)
MaxOf(ss) == IF Len(ss) = 1 THEN ss[1] ELSE Max(ss[1], MaxOf(Tail(ss)))

\* A start width that is made even instead of odd.
initialKernelWidthMadeEven ==
    LET kernelWidth == RoundDiv(2 * FONT_SIZE, 10)
    IN  IF kernelWidth % 2 = 0 THEN kernelWidth + 2 ELSE kernelWidth + 1

\* let kernelWidth = Math.round(0.2 * FONT_SIZE); if even, kernelWidth += 1
initialKernelWidth ==
    LET kernelWidth == RoundDiv(2 * FONT_SIZE, 10)
    IN  IF kernelWidth % 2 = 0 THEN kernelWidth + 1 ELSE kernelWidth

\* for (const char of TUNING_CHARS): blur the glyph at kernelWidth and push
\* overlap(blurred, blurred, 0); the kernel cache and debugCount are threaded.
RECURSIVE selfOverlapLoop(_, _, _, _, _, _)
selfOverlapLoop(cache, count, font, kernelWidth, i, ss) ==
    IF i > Len(TUNING_CHARS) THEN [ss |-> ss, cache |-> cache, count |-> count]
    ELSE LET glyph == renderGlyph(font, TUNING_CHARS[i])
             blurredGlyph == blurred(cache, glyph, <<kernelWidth>>)
         IN  selfOverlapLoop(gaussianBlurCache(cache, glyph.bitmap, <<kernelWidth>>),
                             debugCountAfter(count, blurredGlyph, blurredGlyph, 0),
                             font, kernelWidth, i + 1,
                             Append(ss, overlap(blurredGlyph, blurredGlyph, 0)))

\* while (iteration < MAX_ITERATIONS) { ... }  throw new Error(...)
\* exit names the statement findS left through; value is what the caller gets.
RECURSIVE findSLoop(_, _, _, _, _, _)
findSLoop(cache, count, font, kernelWidth, iteration, tried) ==
    IF iteration >= MAX_ITERATIONS
    THEN [exit |-> "throw", value |-> <<>>, tried |-> tried,
          cache |-> cache, count |-> count]
    ELSE LET it == selfOverlapLoop(cache, count, font, kernelWidth, 1, <<>>)
             minS == MinOf(it.ss)
             maxS == MaxOf(it.ss)
             tried1 == Append(tried, [kernelWidth |-> kernelWidth,
                                      minS |-> minS, maxS |-> maxS])
         IN  IF 2 * minS > maxS
             THEN [exit |-> "converged", value |-> <<minS, maxS, kernelWidth>>,
                   tried |-> tried1, cache |-> it.cache, count |-> it.count]
             ELSE IF kernelWidth + 2 > 2 * FONT_SIZE
                  THEN [exit |-> "ceiling",
                        value |-> <<minS, maxS, (kernelWidth + 2) - 2>>,
                        tried |-> tried1, cache |-> it.cache, count |-> it.count]
                  ELSE findSLoop(it.cache, it.count, font, kernelWidth + 2,
                                 iteration + 1, tried1)

findS(cache, count, font) ==
    findSLoop(cache, count, font, initialKernelWidth, 0, <<>>)

\* A rounding whose halves go away from zero.
kernPercentHalfAway(kernPx, advance) ==
    IF advance = 0
    THEN [finite |-> FALSE, hundredths |-> 0]
    ELSE [finite |-> TRUE,
          hundredths |-> IF kernPx < 0 THEN -RoundDiv(-kernPx * 10000, advance)
                         ELSE RoundDiv(kernPx * 10000, advance)]

\* Math.round((kernPx / left.advance) * 100 * 100) / 100, in hundredths of a
\* percent; a zero advance divides by zero.
kernPercent(kernPx, advance) ==
    IF advance = 0
    THEN [finite |-> FALSE, hundredths |-> 0]
    ELSE [finite |-> TRUE, hundredths |-> RoundDiv(kernPx * 10000, advance)]

\* A pair list without the fallback to COMMON_PAIRS.
pairListOfNoDefault(pairs) == SelectSeq(pairs, LAMBDA p : Len(p) = 2)

\* pairs given: the entries of length 2; none given: COMMON_PAIRS, filtered alike.
pairListOf(pairs) ==
    SelectSeq(IF Len(pairs) > 0 THEN pairs ELSE COMMON_PAIRS,
              LAMBDA p : Len(p) = 2)

\* for (const pair of pairList) { ... kerningTable[pair] = ... }
RECURSIVE pairLoop(_, _, _, _, _, _, _, _)
pairLoop(cache, count, font, pairList, i, s, kerningTable, calls) ==
    IF i > Len(pairList)
    THEN [threw |-> FALSE, kerningTable |-> kerningTable, calls |-> calls,
          cache |-> cache, count |-> count]
    ELSE LET pair == pairList[i]
         IN  IF ~hasChar(font, pair[1]) \/ ~hasChar(font, pair[2])
             THEN pairLoop(cache, count, font, pairList, i + 1, s, kerningTable, calls)
             ELSE LET left == renderGlyph(font, pair[1])
                      right == renderGlyph(font, pair[2])
                      kernPx == kernPair(cache, left, right, s[1], s[2], <<s[3]>>)
                      cache1 == kernPairCache(cache, left, right, <<s[3]>>)
                      count1 == kernPairDebugCount(count, left, right,
                                                   isCalibrationCall(s[1], s[2]))
                      calls1 == Append(calls, [pair |-> pair, s |-> s])
                  IN  IF kernPx.threw
                      THEN [threw |-> TRUE, kerningTable |-> kerningTable,
                            calls |-> calls1, cache |-> cache1, count |-> count1]
                      ELSE pairLoop(cache1, count1, font, pairList, i + 1, s,
                                    [p \in DOMAIN kerningTable \cup {pair} |->
                                        IF p = pair
                                        THEN kernPercent(kernPx.value, left.advance)
                                        ELSE kerningTable[p]],
                                    calls1)

\* outputfile || basename(fontfile) without .ttf/.otf + ".json": one name.
fontName == "font.json"

\* One-row glyphs of width 3 and advance 1, so that a glyph overlaps itself
\* at kern 0 in its columns 0 and 1.
TuningBitmaps ==
    {<<0, 0, 0>>, <<0, One, One>>, <<One, 0, One>>, <<One, One, 0>>, <<One, One, One>>}

TuningGlyphs == {mkGlyph(3, 1, 1, 0, d) : d \in TuningBitmaps}

\* A default that leaves the file unwritten.
writeFileOfDefaultFalse(writeFile) ==
    IF writeFile = <<>> THEN FALSE ELSE writeFile[1]

\* writeFile = opts.writeFile ?? true; the option is <<>> when not specified
\* and <<b>> otherwise.
writeFileOf(writeFile) ==
    IF writeFile = <<>> THEN TRUE ELSE writeFile[1]

\* The options of a call, pairs after split(",") and trim(): none, one pair, a
\* pair twice with an entry of length 1, a pair with a character the font lacks.
PairRequests ==
    {[pairs |-> <<>>, writeFile |-> <<>>],
     [pairs |-> <<>>, writeFile |-> <<FALSE>>],
     [pairs |-> << <<"l", "n">> >>, writeFile |-> <<TRUE>>],
     [pairs |-> << <<"n", "o">>, <<"n">>, <<"n", "o">> >>, writeFile |-> <<FALSE>>],
     [pairs |-> << <<"o", "l">>, <<"o", "x">> >>, writeFile |-> <<>>]}

TableEnvs ==
    [FONT_SIZE : 1..MaxFontSize, MAX_KERN : {MaxKern}, KERN_STEP : {1, MaxKernStep},
     SELECTION_STRATEGY : {""}]

InitTable ==
    /\ env \in TableEnvs
    /\ kernelCache = <<>>
    /\ debugCount = 0
    /\ run = Idle
    /\ \E font \in [{"l", "n", "o"} -> TuningGlyphs], opts \in PairRequests :
          call = [op |-> "generateKerningTable", font |-> font,
                  pairs |-> opts.pairs, writeFile |-> opts.writeFile,
                  done |-> FALSE]

\* generateKerningTable(fontfile, {pairs, writeFile}): findS, then every pair,
\* then the file.  A throw of findS or kernPair rejects the promise.
GenerateKerningTable ==
    /\ call.op = "generateKerningTable"
    /\ ~call.done
    /\ call' = [call EXCEPT !.done = TRUE]
    /\ \E writeFile \in {writeFileOf(call.writeFile)} :
       \E f \in {findS(kernelCache, debugCount, call.font)} :
       \E t \in {IF f.exit = "throw"
                 THEN [threw |-> TRUE, kerningTable |-> <<>>, calls |-> <<>>,
                       cache |-> f.cache, count |-> f.count]
                 ELSE pairLoop(f.cache, f.count, call.font, pairListOf(call.pairs),
                               1, f.value, <<>>, <<>>)} :
          /\ run' = [pc |-> IF t.threw THEN "rejected" ELSE "resolved",
                     exit |-> f.exit, tried |-> f.tried, s |-> f.value,
                     calls |-> t.calls,
                     kerningTable |-> IF t.threw THEN <<>> ELSE t.kerningTable,
                     file |-> IF ~t.threw /\ writeFile
                              THEN <<t.kerningTable>> ELSE <<>>,
                     outputPath |-> IF ~t.threw /\ writeFile
                                    THEN <<fontName>> ELSE <<>>]
          /\ kernelCache' = t.cache
          /\ debugCount' = t.count
    /\ UNCHANGED env

\* getKerningTable(fontfile, pairs): generateKerningTable(fontfile, {pairs,
\* writeFile: false}), of which it returns the kerningTable alone.
GetKerningTable ==
    /\ call.op = "generateKerningTable"
    /\ ~call.done
    /\ call' = [call EXCEPT !.op = "getKerningTable", !.done = TRUE]
    /\ \E writeFile \in {writeFileOf(<<FALSE>>)} :
       \E f \in {findS(kernelCache, debugCount, call.font)} :
       \E t \in {IF f.exit = "throw"
                 THEN [threw |-> TRUE, kerningTable |-> <<>>, calls |-> <<>>,
                       cache |-> f.cache, count |-> f.count]
                 ELSE pairLoop(f.cache, f.count, call.font, pairListOf(call.pairs),
                               1, f.value, <<>>, <<>>)} :
          /\ run' = [pc |-> IF t.threw THEN "rejected" ELSE "resolved",
                     exit |-> f.exit, tried |-> f.tried, s |-> f.value,
                     calls |-> t.calls,
                     kerningTable |-> IF t.threw THEN <<>> ELSE t.kerningTable,
                     file |-> IF ~t.threw /\ writeFile
                              THEN <<t.kerningTable>> ELSE <<>>,
                     outputPath |-> IF ~t.threw /\ writeFile
                                    THEN <<fontName>> ELSE <<>>]
          /\ kernelCache' = t.cache
          /\ debugCount' = t.count
    /\ UNCHANGED env

NextTable == GenerateKerningTable \/ GetKerningTable

SpecTable == InitTable /\ [][NextTable]_vars

\* The self-overlaps of the tuning glyphs blurred at a kernel width, sigma = width / 4.
SelfOverlapsAt(kernelWidth) ==
    [i \in 1..Len(TUNING_CHARS) |->
        LET g == blurred(<<>>, renderGlyph(call.font, TUNING_CHARS[i]), <<kernelWidth>>)
        IN  overlap(g, g, 0)]

ConvergedAt(kernelWidth) ==
    2 * MinOf(SelfOverlapsAt(kernelWidth)) > MaxOf(SelfOverlapsAt(kernelWidth))

\* C7: when findS returns through its converged path, the returned width is
\* the first tried width whose self-overlaps satisfy minS > maxS / 2, no
\* earlier tried width satisfies it, and the returned bounds satisfy it.
C7_ConvergedAtFirstWidth ==
    (run.pc # "idle" /\ run.exit = "converged") =>
        /\ ConvergedAt(run.s[3])
        /\ \A i \in 1..(Len(run.tried) - 1) : ~ConvergedAt(run.tried[i].kernelWidth)
        /\ 2 * run.s[1] > run.s[2]

\* C8: when no tried width converges, findS's caller gets an outcome it can
\* tell from a converged one, and generateKerningTable computes no kerning pair
\* with the non-converged kernel width.
C8_FailureStopsTheRun ==
    (run.pc # "idle" /\ run.exit = "ceiling") =>
        /\ run.pc = "rejected"
        /\ run.calls = <<>>
        /\ run.kerningTable = <<>>

---------------------------------------------------------------------------
(* More properties of overlap, checked under SpecOverlap.                  *)

\* The x intersection range of a finished overlap call is empty, spelled out
\* from the glyph metrics.
EmptyRange ==
    LET lOffset == -(call.left.advance + call.left.bboxOffsetX)
                   + call.right.bboxOffsetX - call.kern
    IN  Max(0, lOffset) >= Min(call.right.width, lOffset + call.left.width)

\* C11: overlap returns exactly 0 whenever the x intersection range
\* [max(0, lOffset), min(right.width, lOffset + left.width)) is empty, and
\* a value >= 0 in every other case.
C11_EmptyRangeGivesZero ==
    call.done =>
        /\ EmptyRange => call.result = 0
        /\ call.result >= 0

\* The range is empty although both glyphs are fully covered.
C11_Witness ==
    /\ call.done
    /\ EmptyRange
    /\ \A i \in DOMAIN call.left.bitmap.data : call.left.bitmap.data[i] = One
    /\ \A i \in DOMAIN call.right.bitmap.data : call.right.bitmap.data[i] = One
    /\ call.result = 0

---------------------------------------------------------------------------
(* More properties of the kern search, checked under SpecKern.             *)

\* C12: under the no-overlap strategy kernPair returns 0 if the overlap at
\* kern 0 is <= EPS; otherwise a sampled kern with overlap <= EPS of minimal
\* absolute value among all such samples of both directions, or 0 if no sample
\* has overlap <= EPS.
C12_NoOverlapNearest ==
    (RanStrategy("no-overlap") /\ ~call.result.threw) =>
        IF CallSamples[0] <= EPS \/ GoodKerns = {}
        THEN call.result.value = 0
        ELSE /\ call.result.value \in GoodKerns
             /\ \A k \in GoodKerns : Abs(call.result.value) <= Abs(k)

\* Twice the distance of the overlap at kern k to the midpoint of the bounds.
MidpointDistance2(k) == Abs(2 * CallSamples[k] - (call.minOverlap + call.maxOverlap))

C14_ArgmaxIsMaximal ==
    (/\ call.done
     /\ strategyOf = "argmax"
     /\ ~isCalibrationCall(call.minOverlap, call.maxOverlap)
     /\ ~call.result.threw) =>
        /\ call.result.value \in SampledKerns
        /\ \A k \in SampledKerns : CallSamples[call.result.value] >= CallSamples[k]

---------------------------------------------------------------------------
(* SpecRepeat: one kernPair call made twice in one process, with other     *)
(* kernPair, gaussianBlur and overlap calls before and between             *)

\* The longest call history explored.
MaxCalls == 4

\* One-row glyphs of width 3 whose blurred bitmap depends on the kernel.
RepeatGlyphs ==
    {mkGlyph(3, 1, adv, 0, d) :
        adv \in {1, 2},
        d \in {<<0, One, One>>, <<One, One, 0>>, <<One, 0, One>>}}

\* (minOverlap, maxOverlap): the calibration invocation, and bands below and
\* around one fully covered pixel.
RepeatBands ==
    {<<0, Sentinel>>, <<EPS \div 4, EPS \div 2>>, <<EPS \div 2, EPS>>,
     <<EPS, 2 * EPS>>}

RepeatEnvs ==
    [FONT_SIZE : {MaxFontSize}, MAX_KERN : {2}, KERN_STEP : {1},
     SELECTION_STRATEGY : {"", "conservative", "midpoint"}]

InitRepeat ==
    /\ env \in RepeatEnvs
    /\ kernelCache = <<>>
    /\ debugCount = 0
    /\ run = Idle
    /\ \E left \in RepeatGlyphs, right \in RepeatGlyphs, band \in RepeatBands,
          kernelWidth \in {<<>>, <<3>>} :
          /\ right.advance = 2
          /\ call = [op |-> "repeat", left |-> left, right |-> right,
                     minOverlap |-> band[1], maxOverlap |-> band[2],
                     kernelWidth |-> kernelWidth,
                     results |-> <<>>, trace |-> <<>>]

\* const result = kernPair(left, right, minOverlap, maxOverlap, kernelWidth)
KernPairRepeat ==
    /\ call.op = "repeat"
    /\ Len(call.trace) < MaxCalls
    /\ Len(call.results) < 2
    /\ call' = [call EXCEPT
                  !.results = Append(@, kernPair(kernelCache, call.left,
                                  call.right, call.minOverlap, call.maxOverlap,
                                  call.kernelWidth)),
                  !.trace = Append(@, "kernPair")]
    /\ kernelCache' = kernPairCache(kernelCache, call.left, call.right,
                                    call.kernelWidth)
    /\ debugCount' = kernPairDebugCount(debugCount, call.left, call.right,
                          isCalibrationCall(call.minOverlap, call.maxOverlap))
    /\ UNCHANGED <<env, run>>

\* Another kernPair call: the glyphs swapped, another kernel width.
KernPairOther ==
    /\ call.op = "repeat"
    /\ Len(call.trace) < MaxCalls
    /\ \E kernelWidth \in {<<2>>, <<5>>} :
          /\ kernelCache' = kernPairCache(kernelCache, call.right, call.left,
                                          kernelWidth)
          /\ debugCount' = kernPairDebugCount(debugCount, call.right, call.left,
                                              TRUE)
    /\ call' = [call EXCEPT !.trace = Append(@, "other kernPair")]
    /\ UNCHANGED <<env, run>>

\* Another gaussianBlur call, on one of the bitmaps.
GaussianBlurOther ==
    /\ call.op = "repeat"
    /\ Len(call.trace) < MaxCalls
    /\ \E kernelWidth \in {<<>>, <<2>>, <<5>>}, g \in {call.left, call.right} :
          kernelCache' = gaussianBlurCache(kernelCache, g.bitmap, kernelWidth)
    /\ call' = [call EXCEPT !.trace = Append(@, "gaussianBlur")]
    /\ UNCHANGED <<env, debugCount, run>>

\* Another overlap call, on the unblurred bitmaps.
OverlapOther ==
    /\ call.op = "repeat"
    /\ Len(call.trace) < MaxCalls
    /\ debugCount' = debugCountAfter(debugCount, call.left, call.right, 0)
    /\ call' = [call EXCEPT !.trace = Append(@, "overlap")]
    /\ UNCHANGED <<env, kernelCache, run>>

NextRepeat == KernPairRepeat \/ KernPairOther \/ GaussianBlurOther \/ OverlapOther

SpecRepeat == InitRepeat /\ [][NextRepeat]_vars

\* The result of the same call in a process that has made no call before.
FreshResult ==
    kernPair(<<>>, call.left, call.right, call.minOverlap, call.maxOverlap,
             call.kernelWidth)

\* C15: two kernPair calls with identical glyphs, bounds, kernelWidth and
\* configuration return the same kern, whatever other kernPair, gaussianBlur
\* or overlap calls ran before or between them.
C15_SameInputsSameKern ==
    (call.op = "repeat" /\ Len(call.results) = 2) =>
        call.results[1] = call.results[2]

\* Other calls ran before the first call and between the two, and the kernel
\* they left in the cache made the kern differ from that of a fresh process.
C15_Witness ==
    /\ call.op = "repeat"
    /\ Len(call.results) = 2
    /\ call.trace[1] # "kernPair"
    /\ call.trace[3] # "kernPair"
    /\ ~call.results[1].threw
    /\ call.results[1] = call.results[2]
    /\ call.results[1] # FreshResult

---------------------------------------------------------------------------
(* SpecConcurrent: two generateKerningTable runs on different fonts,       *)
(* interleaved at their await points                                       *)

\* The glyphs the two fonts are made of.
ConcurrentGlyphs ==
    {mkGlyph(3, 1, 1, 0, d) : d \in {<<0, One, One>>, <<One, 0, One>>, <<One, One, One>>}}

\* The pairs both runs ask for; run 1 writes its file, run 2 is called with
\* writeFile: false.
ConcurrentPairs == << <<"l", "n">>, <<"n", "o">>, <<"o", "l">> >>

Runs == {1, 2}

\* The outcome of generateKerningTable on a font in a process where nothing
\* else runs (the kernel cache empty, debugCount 0), as a one-element set:
\* findS and the pair loop are each bound once.
AloneTable(font, pairs) ==
    UNION {{IF f.exit = "throw" \/ t.threw
            THEN [threw |-> TRUE, kerningTable |-> <<>>]
            ELSE [threw |-> FALSE, kerningTable |-> t.kerningTable] :
               t \in {IF f.exit = "throw" THEN [threw |-> TRUE]
                      ELSE pairLoop(f.cache, f.count, font, pairListOf(pairs),
                                    1, f.value, <<>>, <<>>)}} :
           f \in {findS(<<>>, 0, font)}}

\* Both runs read the one configuration of the process.
ConcurrentEnvs == {e \in TableEnvs : e.FONT_SIZE = MaxFontSize}

InitConcurrent ==
    /\ env \in ConcurrentEnvs
    /\ kernelCache = <<>>
    /\ debugCount = 0
    /\ \E font1 \in [{"l", "n", "o"} -> ConcurrentGlyphs],
          font2 \in [{"l", "n", "o"} -> ConcurrentGlyphs] :
          /\ font1 # font2
          /\ call = [op |-> "concurrent", fonts |-> <<font1, font2>>,
                     pairs |-> ConcurrentPairs, writeFile |-> <<TRUE, FALSE>>,
                     order |-> <<>>]
    /\ run = [i \in Runs |-> [pc |-> "start", exit |-> "", s |-> <<>>,
                              kerningTable |-> <<>>, file |-> <<>>]]

\* const font = await opentype.load(fontfile): the run is suspended until the
\* font is there.
LoadFont(i) ==
    /\ call.op = "concurrent"
    /\ run[i].pc = "start"
    /\ run' = [run EXCEPT ![i].pc = "loaded"]
    /\ UNCHANGED <<env, kernelCache, debugCount, call>>

\* From findS(font) to the end of the pair loop: synchronous code, one step.
\* It ends at await import("fs"), at the return, or in a throw.
ComputeTable(i) ==
    /\ call.op = "concurrent"
    /\ run[i].pc = "loaded"
    /\ call' = [call EXCEPT !.order = Append(@, i)]
    /\ \E f \in {findS(kernelCache, debugCount, call.fonts[i])} :
       \E t \in {IF f.exit = "throw"
                 THEN [threw |-> TRUE, kerningTable |-> <<>>, calls |-> <<>>,
                       cache |-> f.cache, count |-> f.count]
                 ELSE pairLoop(f.cache, f.count, call.fonts[i],
                               pairListOf(call.pairs), 1, f.value, <<>>, <<>>)} :
          /\ run' = [run EXCEPT ![i] =
                        [pc |-> IF t.threw THEN "rejected"
                                ELSE IF call.writeFile[i] THEN "writing"
                                ELSE "resolved",
                         exit |-> f.exit, s |-> f.value,
                         kerningTable |-> IF t.threw THEN <<>> ELSE t.kerningTable,
                         file |-> <<>>]]
          /\ kernelCache' = t.cache
          /\ debugCount' = t.count
    /\ UNCHANGED env

\* const fs = await import("fs"); fs.writeFileSync(fontName, ...); return
WriteTable(i) ==
    /\ call.op = "concurrent"
    /\ run[i].pc = "writing"
    /\ run' = [run EXCEPT ![i].pc = "resolved",
                          ![i].file = <<run[i].kerningTable>>]
    /\ UNCHANGED <<env, kernelCache, debugCount, call>>

NextConcurrent == \E i \in Runs : LoadFont(i) \/ ComputeTable(i) \/ WriteTable(i)

SpecConcurrent == InitConcurrent /\ [][NextConcurrent]_vars

Computed(i) == run[i].pc \in {"writing", "resolved", "rejected"}

\* C16: each of two concurrent generateKerningTable runs on different fonts
\* produces the kerning table (or the failure) it produces when run alone;
\* the shared kernel cache and debugCount change neither result.
C16_RunsDoNotInterfere ==
    call.op = "concurrent" =>
        \A i \in Runs :
            Computed(i) =>
                \E alone \in AloneTable(call.fonts[i], call.pairs) :
                    /\ alone.threw = (run[i].pc = "rejected")
                    /\ alone.kerningTable = run[i].kerningTable

\* Run 1 computed after run 2, on the cache run 2 left; the two runs settled
\* on different kernel widths and produced different tables.
C16_Witness ==
    /\ call.op = "concurrent"
    /\ call.order = <<2, 1>>
    /\ run[1].pc = "resolved"
    /\ run[2].pc = "resolved"
    /\ run[1].s[3] # run[2].s[3]
    /\ run[1].kerningTable # run[2].kerningTable
    /\ \E p \in DOMAIN run[1].kerningTable : run[1].kerningTable[p].hundredths # 0

---------------------------------------------------------------------------
(* SpecTable: the keys and the file of a run                               *)

\* The pairs the caller asks for: its own, or COMMON_PAIRS when it gives none.
RequestedPairs ==
    IF call.pairs = <<>>
    THEN {COMMON_PAIRS[i] : i \in DOMAIN COMMON_PAIRS}
    ELSE {call.pairs[i] : i \in DOMAIN call.pairs}

\* The requested pairs of length 2 whose two characters the font has.
PresentPairs ==
    {p \in RequestedPairs :
        Len(p) = 2 /\ p[1] \in DOMAIN call.font /\ p[2] \in DOMAIN call.font}

\* The outcome of the run when only the pairs of PresentPairs are asked for,
\* in the order of the request; a one-element set.
OutcomeOfPresentPairs ==
    {[threw |-> t.threw,
      kerningTable |-> IF t.threw THEN <<>> ELSE t.kerningTable] :
        t \in UNION {{pairLoop(f.cache, f.count, call.font,
                               SelectSeq(pairListOf(call.pairs),
                                         LAMBDA p : p \in PresentPairs),
                               1, f.value, <<>>, <<>>)} :
                     f \in {findS(<<>>, 0, call.font)}}}

\* C17: the keys of the returned kerningTable are exactly the requested pairs
\* of length 2 whose two characters exist in the font (the caller's pairs, or
\* COMMON_PAIRS when none are given); a pair with a missing glyph raises no
\* error and changes nothing for the other pairs: the run ends as it does
\* when that pair is not asked for.
C17_KeysAreThePresentPairs ==
    (call.op = "generateKerningTable" /\ call.done /\ run.exit # "throw") =>
        /\ run.pc = "resolved" => DOMAIN run.kerningTable = PresentPairs
        /\ \E o \in OutcomeOfPresentPairs :
              /\ o.threw = (run.pc = "rejected")
              /\ o.kerningTable = run.kerningTable

\* A resolved run whose request held a pair with a character the font lacks
\* and a pair the font has.
C17_Witness ==
    /\ call.op = "generateKerningTable"
    /\ call.done
    /\ run.pc = "resolved"
    /\ \E p \in RequestedPairs : Len(p) = 2 /\ p \notin PresentPairs
    /\ PresentPairs # {}
    /\ DOMAIN run.kerningTable = PresentPairs
    /\ \E p \in PresentPairs : run.kerningTable[p].hundredths # 0

\* C18: a run that returns has written the JSON file and carries outputPath
\* exactly when writeFile is true; with writeFile false, and on every call
\* through getKerningTable, no file is written and there is no outputPath.
\* A run that is rejected has written nothing.
C18_FileIffWriteFile ==
    (call.op \in {"generateKerningTable", "getKerningTable"} /\ call.done) =>
        LET writeFile == call.op = "generateKerningTable"
                         /\ call.writeFile # <<FALSE>>
        IN  /\ run.pc = "resolved" =>
                /\ (run.file # <<>>) = writeFile
                /\ (run.outputPath # <<>>) = writeFile
                /\ run.file # <<>> => run.file[1] = run.kerningTable
            /\ ~writeFile => run.file = <<>> /\ run.outputPath = <<>>
            /\ run.pc = "rejected" => run.file = <<>>

\* A run with writeFile not specified that wrote its table, which is not
\* empty, and returned the path.
C18_Witness ==
    /\ call.done
    /\ run.pc = "resolved"
    /\ DOMAIN run.kerningTable # {}
    /\ call.op = "generateKerningTable"
    /\ call.writeFile = <<>>
    /\ run.file = <<run.kerningTable>>
    /\ run.outputPath = <<fontName>>

---------------------------------------------------------------------------
(* SpecPercent: the table value of one pair, from the pixel kern and the   *)
(* left glyph's advance                                                    *)

\* The largest advance explored; at 32 one pixel of kern is 3.125 percent, a
\* half in the third decimal.
MaxAdvance == 32

InitPercent ==
    /\ env = DefaultEnv
    /\ kernelCache = <<>>
    /\ debugCount = 0
    /\ run = Idle
    /\ \E kernPx \in -MaxKern..MaxKern, advance \in 0..MaxAdvance :
          call = [op |-> "kernPercent", kernPx |-> kernPx, advance |-> advance,
                  done |-> FALSE, kerningTable |-> <<>>]

\* const kernPercent = (kernPx / left.advance) * 100;
\* kerningTable[pair] = Math.round(kernPercent * 100) / 100;
StoreKernPercent ==
    /\ call.op = "kernPercent"
    /\ ~call.done
    /\ call' = [call EXCEPT
                  !.done = TRUE,
                  !.kerningTable = [p \in {<<"l", "o">>} |->
                                       kernPercent(call.kernPx, call.advance)]]
    /\ UNCHANGED <<env, kernelCache, debugCount, run>>

SpecPercent == InitPercent /\ [][StoreKernPercent]_vars

---------------------------------------------------------------------------
(* More properties of gaussianBlur, checked under SpecBlur.                *)

\* The kernel the finished call used: the cache entry of its radius.
UsedKernel ==
    kernelCache[radiusOf(sigmaOf(call.input, call.kernelWidth))]

\* The used kernel was cached by an earlier call with another sigma.
StaleKernel ==
    LET sigma == sigmaOf(call.input, call.kernelWidth)
    IN  UsedKernel # newKernel(radiusOf(sigma), sigma)

\* C20: every cached kernel has 2 * radius + 1 weights that sum to 1, and a
\* call, with a fresh or a cached kernel, returns a grid of the input's height
\* and width; a grid whose pixels all equal c comes back with c at every
\* pixel, edges and corners included.
C20_ConstantGridStays ==
    /\ \A r \in DOMAIN kernelCache :
          /\ Len(kernelCache[r].num) = 2 * r + 1
          /\ kernelCache[r].den > 0
          /\ SumFn(kernelCache[r].num, 1, 2 * r + 1) = kernelCache[r].den
    /\ (call.op = "gaussianBlur" /\ call.done) =>
          /\ call.result.shape = call.input.shape
          /\ DOMAIN call.result.data = DOMAIN call.input.data
          /\ (\A p, q \in DOMAIN call.input.data :
                 call.input.data[p] = call.input.data[q])
             => call.result.data = call.input.data

\* An all-one grid of two rows and two columns blurred with radius 1 or more,
\* so that every pixel has taps outside the grid, by a kernel an earlier call
\* with another sigma left in the cache.
C20_Witness ==
    /\ call.op = "gaussianBlur"
    /\ call.done
    /\ call.input.shape = <<2, 2>>
    /\ \A p \in DOMAIN call.input.data : call.input.data[p] = One
    /\ radiusOf(sigmaOf(call.input, call.kernelWidth)) >= 1
    /\ StaleKernel
    /\ call.result.data = call.input.data

---------------------------------------------------------------------------
(* The default strategy, checked under SpecKern.                           *)

\* What the conservative branch of the called variant returns on the samples
\* of the finished call.
ConservativeKern ==
    IF call.op = "kernPairTs"
    THEN IF GoodKerns = {} THEN 0 ELSE Least(GoodKerns)
    ELSE IF BadKerns = {} THEN Least(SampledKerns)
    ELSE IF Greatest(BadKerns) = Greatest(SampledKerns) THEN 0
    ELSE Greatest(BadKerns) + KERN_STEP

\* C21: with no SELECTION_STRATEGY in the environment, a kernPair call with
\* bounds other than the calibration pair returns the kern of the conservative
\* rule.
C21_DefaultIsConservative ==
    (/\ call.op \in {"kernPair", "kernPairTs"}
     /\ call.done
     /\ env.SELECTION_STRATEGY = ""
     /\ ~isCalibrationCall(call.minOverlap, call.maxOverlap)) =>
        call.result = Return(ConservativeKern)

---------------------------------------------------------------------------
(* SpecSquare: overlap of a fully covered square glyph with itself         *)

\* The side of the largest square glyph.
MaxSquare == 10

\* createTestGlyph(char, n, n): coverage 1 everywhere, advance n, bearing 0.
createTestGlyph(n) == mkGlyph(n, n, n, 0, [p \in 1..(n * n) |-> One])

InitSquare ==
    /\ env = DefaultEnv
    /\ kernelCache = <<>>
    /\ debugCount = 0
    /\ run = Idle
    /\ \E n \in 1..MaxSquare, kern \in (-2 * MaxSquare)..MaxSquare \cup {-100} :
          call = [op |-> "overlap", left |-> createTestGlyph(n),
                  right |-> createTestGlyph(n), kern |-> kern,
                  done |-> FALSE, result |-> 0]

SpecSquare == InitSquare /\ [][OverlapCall]_vars

\* The columns in which the two n x n glyphs intersect at a kern: the formula
\* leaves min(n, -kern) - max(0, -n - kern) of them, none when that is negative.
SquareColumns(n, kern) == Max(0, Min(n, -kern) - Max(0, -n - kern))

\* C22: for two identical, fully covered 10x10 glyphs with advance 10 and
\* bearing 0, overlap at kern 0 is 100 less the area the intersection formula
\* excludes (all of it: the glyphs sit side by side), overlap at kern -100 is
\* 0, overlap at kern -5 is positive, and overlap(-10) >= overlap(-5) >=
\* overlap(0).  A pixel pair of coverage 1 counts One^4.
C22_SquareOverlap ==
    (call.op = "overlap" /\ call.done /\ call.left = call.right
       /\ call.left = createTestGlyph(call.left.width)) =>
        LET n == call.left.width
            g == createTestGlyph(10)
        IN  /\ call.result = SquareColumns(n, call.kern) * n * One * One * One * One
            /\ (n = 10 /\ call.kern = 0) =>
                   call.result = (100 - 10 * (10 - SquareColumns(10, 0)))
                                 * One * One * One * One
            /\ (n = 10 /\ call.kern = -100) => call.result = 0
            /\ (n = 10 /\ call.kern = -5) =>
                   /\ call.result > 0
                   /\ overlap(g, g, -10) >= call.result
                   /\ call.result >= overlap(g, g, 0)

\* The 10x10 pair at kern -5: five columns of ten rows overlap.
C22_Witness ==
    /\ call.op = "overlap"
    /\ call.done
    /\ call.left = createTestGlyph(10)
    /\ call.right = createTestGlyph(10)
    /\ call.kern = -5
    /\ call.result = 50 * One * One * One * One
    /\ overlap(call.left, call.right, -10) = 100 * One * One * One * One
    /\ overlap(call.left, call.right, 0) = 0

---------------------------------------------------------------------------
(* SpecFrame: gaussianBlur and kernPair on a heap.  run.heap is a sequence *)
(* of objects, an address is an index into it; an object is a typed array  *)
(* (a sequence of pixel values) or a glyph whose bitmap.data is the        *)
(* address of a typed array.                                               *)

\* The most objects the heap holds.
MaxHeap == 12

\* A variant that uses the input's own array for the horizontal pass.
tempDataRefInPlace(heap, inData) == inData

\* const tempData = new Float32Array(width * height): a fresh address.
tempDataRef(heap, inData) == Len(heap) + 1

\* A store of a whole array at an address; the next free address allocates.
heapWrite(heap, a, v) ==
    IF a = Len(heap) + 1 THEN Append(heap, v) ELSE [heap EXCEPT ![a] = v]

\* gaussianBlur on the heap: input is an ndarray whose data is an address.
\* Returns the heap after the call and the returned ndarray.
gaussianBlurHeap(heap, cache, input, kernelWidth) ==
    LET sigma == sigmaOf(input, kernelWidth)
        width == input.shape[2]
        height == input.shape[1]
        radius == radiusOf(sigma)
        kernel == kernelFor(cache, radius, sigma)
        tempData == tempDataRef(heap, input.data)
        heap1 == heapWrite(heap, tempData,
                           blurPass(heap[input.data], height, width, radius,
                                    kernel, TRUE))
        outData == Len(heap1) + 1
        heap2 == heapWrite(heap1, outData,
                           blurPass(heap1[tempData], height, width, radius,
                                    kernel, FALSE))
    IN  [heap |-> heap2, result |-> ndarray(outData, height, width)]

\* The glyph at an address with its pixel values in place of their address.
glyphAt(heap, a) == [heap[a] EXCEPT !.bitmap.data = heap[heap[a].bitmap.data]]

FrameBitmaps == Bitmaps(2, 1)

InitFrame ==
    /\ env = DefaultEnv
    /\ kernelCache = <<>>
    /\ debugCount = 0
    /\ \E dl \in FrameBitmaps, dr \in FrameBitmaps, right \in {3, 4} :
          /\ run = [heap |-> <<dl, dr, mkGlyph(2, 1, 1, 0, 1), mkGlyph(2, 1, 2, 0, 2)>>,
                    prev |-> <<>>, inputs |-> {}, outputs |-> {}]
          /\ call = [op |-> "frame", left |-> 3, right |-> right, last |-> "none",
                     result |-> Return(0)]

\* gaussianBlur(glyph.bitmap, undefined, kernelWidth) on one of the glyphs.
GaussianBlurFrame ==
    /\ call.op = "frame"
    /\ Len(run.heap) + 2 <= MaxHeap
    /\ \E kernelWidth \in {<<>>, <<3>>, <<5>>},
          g \in {call.left, call.right} :
          \E b \in {gaussianBlurHeap(run.heap, kernelCache, run.heap[g].bitmap,
                                     kernelWidth)} :
             /\ run' = [heap |-> b.heap, prev |-> run.heap,
                        inputs |-> {g, run.heap[g].bitmap.data},
                        outputs |-> {b.result.data}]
             /\ kernelCache' = gaussianBlurCache(kernelCache,
                                   glyphAt(run.heap, g).bitmap, kernelWidth)
    /\ call' = [call EXCEPT !.last = "gaussianBlur"]
    /\ UNCHANGED <<env, debugCount>>

\* kernPair(left, right, minOverlap, maxOverlap, kernelWidth): blurredLeft and
\* blurredRight are new objects, {...glyph, bitmap: gaussianBlur(...)}.
KernPairFrame ==
    /\ call.op = "frame"
    /\ Len(run.heap) + 6 <= MaxHeap
    /\ \E kernelWidth \in {<<>>, <<3>>}, band \in {<<0, Sentinel>>, <<EPS, 2 * EPS>>} :
       \E bl \in {gaussianBlurHeap(run.heap, kernelCache,
                                   run.heap[call.left].bitmap, kernelWidth)} :
       \E heap1 \in {Append(bl.heap, [run.heap[call.left] EXCEPT !.bitmap = bl.result])} :
       \E cache1 \in {gaussianBlurCache(kernelCache,
                          glyphAt(run.heap, call.left).bitmap, kernelWidth)} :
       \E br \in {gaussianBlurHeap(heap1, cache1, heap1[call.right].bitmap,
                                   kernelWidth)} :
       \E heap2 \in {Append(br.heap, [heap1[call.right] EXCEPT !.bitmap = br.result])} :
          /\ run' = [heap |-> heap2, prev |-> run.heap,
                     inputs |-> {call.left, call.right,
                                 run.heap[call.left].bitmap.data,
                                 run.heap[call.right].bitmap.data},
                     outputs |-> {Len(heap1), Len(heap2)}]
          /\ call' = [call EXCEPT
                        !.last = "kernPair",
                        !.result = kernPair(kernelCache,
                                            glyphAt(run.heap, call.left),
                                            glyphAt(run.heap, call.right),
                                            band[1], band[2], kernelWidth)]
          /\ kernelCache' = kernPairCache(kernelCache,
                                          glyphAt(run.heap, call.left),
                                          glyphAt(run.heap, call.right),
                                          kernelWidth)
          /\ debugCount' = kernPairDebugCount(debugCount,
                                              glyphAt(run.heap, call.left),
                                              glyphAt(run.heap, call.right),
                                              isCalibrationCall(band[1], band[2]))
    /\ UNCHANGED env

NextFrame == GaussianBlurFrame \/ KernPairFrame

SpecFrame == InitFrame /\ [][NextFrame]_vars

\* C23: a gaussianBlur or kernPair call changes no object that existed before
\* it: the input grids hold the values they held and the input glyphs keep
\* their width, height, advance and bearing offset; what the call returns or
\* builds (the blurred grid, the blurred glyphs) lies at new addresses, and a
\* blurred glyph has the metrics of its input and a grid of its own.
C23_InputsNotModified ==
    (call.op = "frame" /\ call.last # "none") =>
        /\ \A a \in 1..Len(run.prev) : run.heap[a] = run.prev[a]
        /\ \A a \in run.outputs : a > Len(run.prev)
        /\ call.last = "kernPair" =>
              \A a \in run.outputs :
                 /\ run.heap[a].bitmap.data > Len(run.prev)
                 /\ \E g \in {call.left, call.right} :
                       [run.heap[a] EXCEPT !.bitmap = run.heap[g].bitmap]
                           = run.heap[g]

\* A kernPair call on one glyph as both arguments, after an earlier call, whose
\* blur changed the pixel values: the blurred grids differ from the input's.
C23_Witness ==
    /\ call.op = "frame"
    /\ call.last = "kernPair"
    /\ call.left = call.right
    /\ Len(run.prev) > 4
    /\ \A a \in run.outputs :
          run.heap[run.heap[a].bitmap.data] # run.heap[run.heap[call.left].bitmap.data]
    /\ \A a \in 1..Len(run.prev) : run.heap[a] = run.prev[a]

---------------------------------------------------------------------------
(* SpecFindS: one findS call, at small font sizes, at the default 100 and  *)
(* at 112                                                                  *)

\* FONT_SIZE: parseInt(process.env.FONT_SIZE || "100", 10).
FindSFontSizes == 1..MaxFontSize \cup {100, 112}

\* The tuning glyphs: blank, partly covered, fully covered.
FindSGlyphs ==
    {mkGlyph(3, 1, 1, 0, d) : d \in {<<0, 0, 0>>, <<0, One, One>>, <<One, One, One>>}}

InitFindS ==
    /\ env \in [FONT_SIZE : FindSFontSizes, MAX_KERN : {MaxKern}, KERN_STEP : {1},
                SELECTION_STRATEGY : {""}]
    /\ kernelCache = <<>>
    /\ debugCount = 0
    /\ run = Idle
    /\ \E font \in [{"l", "n", "o"} -> FindSGlyphs] :
          \* at the large sizes, only fonts whose three glyphs are alike
          /\ env.FONT_SIZE > MaxFontSize => (font["l"] = font["n"] /\ font["n"] = font["o"])
          /\ call = [op |-> "findS", font |-> font, done |-> FALSE]

\* const [minS, maxS, kernelWidth] = findS(font)
FindSCall ==
    /\ call.op = "findS"
    /\ ~call.done
    /\ call' = [call EXCEPT !.done = TRUE]
    /\ \E f \in {findS(kernelCache, debugCount, call.font)} :
          /\ run' = [pc |-> IF f.exit = "throw" THEN "rejected" ELSE "resolved",
                     exit |-> f.exit, tried |-> f.tried, s |-> f.value]
          /\ kernelCache' = f.cache
          /\ debugCount' = f.count
    /\ UNCHANGED env

SpecFindS == InitFindS /\ [][FindSCall]_vars

\* C24: findS ends, at every font size, by returning: at a converged width,
\* or, when no tried width converges, at the ceiling with the bounds computed
\* last; it never ends by throwing 'Max iterations exceeded'.
C24_FindSReturns ==
    (call.op = "findS" /\ call.done) =>
        /\ run.exit \in {"converged", "ceiling"}
        /\ run.exit = "ceiling" =>
              /\ run.s[1] = run.tried[Len(run.tried)].minS
              /\ run.s[2] = run.tried[Len(run.tried)].maxS

\* The kernel widths of the blurs of a finished findS call, in order.
TriedWidths == [i \in 1..Len(run.tried) |-> run.tried[i].kernelWidth]

\* C25: the widths findS tries start at round(0.2 * fontSize), plus one when
\* that is even, and grow by 2: the sequence is strictly increasing, every
\* tried and every returned width is odd, and no width above 2 * fontSize is
\* used for a blur.
C25_TriedWidths ==
    (call.op = "findS" /\ call.done) =>
        LET r == (2 * env.FONT_SIZE + 5) \div 10
        IN  /\ Len(TriedWidths) >= 1
            /\ TriedWidths[1] = IF r % 2 = 0 THEN r + 1 ELSE r
            /\ \A i \in 1..(Len(TriedWidths) - 1) :
                  TriedWidths[i + 1] = TriedWidths[i] + 2
            /\ \A i \in 1..Len(TriedWidths) :
                  /\ TriedWidths[i] % 2 = 1
                  /\ TriedWidths[i] <= 2 * env.FONT_SIZE
            /\ run.exit # "throw" =>
                  /\ run.s[3] % 2 = 1
                  /\ run.s[3] = TriedWidths[Len(TriedWidths)]

\* A run at the default size 100, whose rounded start width 20 is even, that
\* tried several widths before it returned.
C25_Witness ==
    /\ call.op = "findS"
    /\ call.done
    /\ env.FONT_SIZE = 100
    /\ Len(TriedWidths) >= 3
    /\ TriedWidths[1] = 21
    /\ run.exit # "throw"

---------------------------------------------------------------------------
(* SpecSteps: one generateKerningTable run, statement by statement.        *)
(* run.events is the sequence of findS and kernPair calls the run made.    *)

\* A triple whose kernel width is changed between findS and kernPair.
kernPairTripleWidened(s) == <<s[1], s[2], s[3] + 2>>

\* kernPair(left, right, minS, maxS, kernelWidth): the destructured constants.
kernPairTriple(s) == s

InitSteps ==
    /\ env \in TableEnvs
    /\ kernelCache = <<>>
    /\ debugCount = 0
    /\ \E font \in [{"l", "n", "o"} -> ConcurrentGlyphs], opts \in PairRequests :
          call = [op |-> "steps", font |-> font, pairList |-> pairListOf(opts.pairs),
                  writeFile |-> writeFileOf(opts.writeFile)]
    /\ run = [pc |-> "start", i |-> 0, s |-> <<>>, kerningTable |-> <<>>,
              events |-> <<>>, file |-> <<>>]

\* const [minS, maxS, kernelWidth] = findS(font)
FindSStep ==
    /\ call.op = "steps"
    /\ run.pc = "start"
    /\ \E f \in {findS(kernelCache, debugCount, call.font)} :
          /\ run' = [run EXCEPT
                       !.pc = IF f.exit = "throw" THEN "rejected" ELSE "pairs",
                       !.i = 1,
                       !.s = f.value,
                       !.events = Append(@, [fn |-> "findS", value |-> f.value])]
          /\ kernelCache' = f.cache
          /\ debugCount' = f.count
    /\ UNCHANGED <<env, call>>

\* One iteration of for (const pair of pairList).
PairStep ==
    /\ call.op = "steps"
    /\ run.pc = "pairs"
    /\ run.i <= Len(call.pairList)
    /\ LET pair == call.pairList[run.i]
       IN  IF ~hasChar(call.font, pair[1]) \/ ~hasChar(call.font, pair[2])
           THEN /\ run' = [run EXCEPT !.i = @ + 1]
                /\ UNCHANGED <<kernelCache, debugCount>>
           ELSE \E left \in {renderGlyph(call.font, pair[1])},
                   right \in {renderGlyph(call.font, pair[2])},
                   t \in {kernPairTriple(run.s)} :
                \E kernPx \in {kernPair(kernelCache, left, right,
                                        t[1], t[2], <<t[3]>>)} :
                   /\ run' = [run EXCEPT
                                !.pc = IF kernPx.threw THEN "rejected" ELSE "pairs",
                                !.i = @ + 1,
                                !.events = Append(@, [fn |-> "kernPair",
                                                      pair |-> pair, s |-> t]),
                                !.kerningTable =
                                    IF kernPx.threw THEN @
                                    ELSE [p \in DOMAIN @ \cup {pair} |->
                                            IF p = pair
                                            THEN kernPercent(kernPx.value,
                                                             left.advance)
                                            ELSE @[p]]]
                   /\ kernelCache' = kernPairCache(kernelCache, left, right, <<t[3]>>)
                   /\ debugCount' = kernPairDebugCount(debugCount, left, right,
                                        isCalibrationCall(t[1], t[2]))
    /\ UNCHANGED <<env, call>>

\* After the loop: the file when writeFile, and the return.
ReturnStep ==
    /\ call.op = "steps"
    /\ run.pc = "pairs"
    /\ run.i > Len(call.pairList)
    /\ run' = [run EXCEPT !.pc = "resolved",
                          !.file = IF call.writeFile THEN <<run.kerningTable>>
                                   ELSE <<>>]
    /\ UNCHANGED <<env, kernelCache, debugCount, call>>

NextSteps == FindSStep \/ PairStep \/ ReturnStep

SpecSteps == InitSteps /\ [][NextSteps]_vars

\* C26: in one run findS is called exactly once, before any pair is
\* processed; every kernPair call of the run gets the triple findS returned,
\* and the triple the run holds stays that triple while pairs are processed.
C26_OneCalibrationPerRun ==
    (call.op = "steps" /\ run.pc # "start") =>
        /\ Len(run.events) >= 1
        /\ run.events[1].fn = "findS"
        /\ \A j \in 2..Len(run.events) :
              /\ run.events[j].fn = "kernPair"
              /\ run.events[j].s = run.events[1].value
        /\ run.pc \in {"pairs", "resolved"} => run.s = run.events[1].value

\* A returned run with two kernPair calls or more, after a findS that did not
\* stop at its first width.
C26_Witness ==
    /\ call.op = "steps"
    /\ run.pc = "resolved"
    /\ Len(run.events) >= 3
    /\ run.s[3] > initialKernelWidth
    /\ DOMAIN run.kerningTable # {}

---------------------------------------------------------------------------
(* SpecRequests: several generateKerningTable requests on one font in one  *)
(* process; run.tables holds what each request returned.                   *)

\* The most requests made.
MaxRequests == 2

\* Pair lists that share pairs: alone, with others, in another order, twice.
RequestLists ==
    {<< <<"l", "n">> >>,
     << <<"l", "n">>, <<"n", "o">> >>,
     << <<"n", "o">>, <<"l", "n">> >>,
     << <<"l", "n">>, <<"l", "n">> >>,
     << <<"o", "l">>, <<"n", "o">>, <<"l", "n">>, <<"n", "o">> >>}

InitRequests ==
    /\ env \in {e \in TableEnvs : e.KERN_STEP = 1}
    /\ kernelCache = <<>>
    /\ debugCount = 0
    /\ \E font \in [{"l", "n", "o"} -> ConcurrentGlyphs] :
          call = [op |-> "requests", font |-> font]
    /\ run = [tables |-> <<>>]

\* await getKerningTable(fontPath, pairs): a whole run on the cache the
\* earlier requests left.
RequestTable ==
    /\ call.op = "requests"
    /\ Len(run.tables) < MaxRequests
    /\ \E pairs \in RequestLists :
       \E f \in {findS(kernelCache, debugCount, call.font)} :
       \E t \in {IF f.exit = "throw"
                 THEN [threw |-> TRUE, kerningTable |-> <<>>, calls |-> <<>>,
                       cache |-> f.cache, count |-> f.count]
                 ELSE pairLoop(f.cache, f.count, call.font, pairListOf(pairs),
                               1, f.value, <<>>, <<>>)} :
          /\ run' = [tables |-> Append(run.tables,
                                   [pairs |-> pairs, threw |-> t.threw,
                                    kerningTable |-> IF t.threw THEN <<>>
                                                     ELSE t.kerningTable])]
          /\ kernelCache' = t.cache
          /\ debugCount' = t.count
    /\ UNCHANGED <<env, call>>

SpecRequests == InitRequests /\ [][RequestTable]_vars

\* C27: the value of a pair is the same in every request on the font that
\* contains the pair, whatever the other pairs, their order and their
\* repetitions, and however many requests came before.
C27_ValueIndependentOfRequest ==
    call.op = "requests" =>
        \A i, j \in 1..Len(run.tables) :
            \A p \in DOMAIN run.tables[i].kerningTable
                       \cap DOMAIN run.tables[j].kerningTable :
                run.tables[i].kerningTable[p] = run.tables[j].kerningTable[p]

\* Two requests with different lists that share a pair whose value is not 0.
C27_Witness ==
    /\ call.op = "requests"
    /\ Len(run.tables) = 2
    /\ run.tables[1].pairs # run.tables[2].pairs
    /\ Len(run.tables[2].pairs) > 1
    /\ \E p \in DOMAIN run.tables[1].kerningTable
                  \cap DOMAIN run.tables[2].kerningTable :
          /\ run.tables[1].kerningTable[p].hundredths # 0
          /\ run.tables[1].kerningTable[p] = run.tables[2].kerningTable[p]


---------------------------------------------------------------------------
(* The sampled kerns and the two conservative rules, checked under SpecKern. *)

\* C28: for every MAX_KERN >= 1 and KERN_STEP >= 1 the samples of a kernPair
\* call include kern 0 and every kern i*KERN_STEP and -i*KERN_STEP with
\* i*KERN_STEP <= MAX_KERN, so the calibrated strategy finds the sample at 0 and
\* at every kern it walks.
C28_WalkedKernsAreSampled ==
    (/\ call.op = "kernPair"
     /\ call.done
     /\ ~isCalibrationCall(call.minOverlap, call.maxOverlap)) =>
        /\ 0 \in SampledKerns
        /\ \A i \in 1..MAX_KERN :
              i * KERN_STEP <= MAX_KERN =>
                  {i * KERN_STEP, -(i * KERN_STEP)} \subseteq SampledKerns
        /\ strategyOf = "calibrated" => ~call.result.threw

\* C30: on the samples of any kernPair call, the scan of the five-argument
\* kernPair from the most positive kern and the minimum over the samples within
\* EPS of src/kernPair.ts give the same kern.
C30_ConservativeRulesAgree ==
    (/\ call.op \in {"kernPair", "kernPairTs"}
     /\ call.done) =>
        LET kw == IF call.op = "kernPair" THEN call.kernelWidth ELSE <<>>
            bl == blurred(<<>>, call.left, kw)
            br == blurred(gaussianBlurCache(<<>>, call.left.bitmap, kw),
                          call.right, kw)
            samples == samplesOf(bl, br)
        IN  conservative(samples) = conservativeTs(samples)


---------------------------------------------------------------------------
(* The triple findS returns, checked under SpecTable.                      *)

===========================================================================
